---- MODULE Spec2Model ----
(***************************************************************************)
(* Model of the Maschine Mikro MK2 driver, src/devices/mk2/mikro.rs: the   *)
(* button edge detector and encoder handling (read_buttons), the pad       *)
(* report decoder (read_pads), the report dispatcher (readable), the pad    *)
(* pressure query (get_pad_pressure), the light setters (set_pad_light,    *)
(* set_button_light), the light flush (write_lights) and the display clear *)
(* (clear_screen).                                                         *)
(*                                                                         *)
(* A handler call of the event sink (MaschineHandler) is recorded as one   *)
(* entry of the sequence `events`, which holds the calls of the operation  *)
(* performed last.  A Rust panic (expect / unwrap / panic!) ends the       *)
(* program: `outcome` becomes "panic" and no further operation runs.  A    *)
(* write on the transport is recorded as one entry of `writes`, which      *)
(* holds the writes attempted by the operation performed last.             *)
(***************************************************************************)
EXTENDS Integers, Sequences, FiniteSets, TLC

\* ------------------------------------------------------------ bounds

\* Bit positions the modelled device toggles: the first NumWired entries
\* of WiredOrder.
NumWired == 4
\* Encoder bytes the modelled device sends: 0 and 14..15+EncHigh.
EncHigh == 1
\* 12-bit pad levels the modelled device sends: LevelStep * (0..NumLevels)
\* and 4095; top four bits of a sample: 0..MaxTop.
NumLevels == 5
LevelStep == 60
MaxTop == 1
\* Longest pad-0 pressure sequence followed by the hysteresis monitor.
MaxTraj == 4
\* Pad indices the pressure query is called with: 0..MaxPadIdx.
MaxPadIdx == 17
\* Brightness values the application passes: k / 2^BrightBits for k = 0,
\* 1 and 2^BrightBits (exact in f32, as are their products with a byte).
BrightBits == 2
\* Light and display operations followed from construction in the light
\* specifications.
MaxLightOps == 2

\* ------------------------------------------------------------ bytes

Pow2(n) == 2 ^ n

BitOf(x, b) == (x \div Pow2(b)) % 2

\* a ^ b on u8
XorBits(a, b) ==
    LET X(i) == ((BitOf(a, i) + BitOf(b, i)) % 2) * Pow2(i)
    IN  X(0) + X(1) + X(2) + X(3) + X(4) + X(5) + X(6) + X(7)

XorTable == [a \in 0..255 |-> [b \in 0..255 |-> XorBits(a, b)]]

XorByte(a, b) == XorTable[a][b]

\* a & b on u8
AndByte(a, b) ==
    LET X(i) == (BitOf(a, i) * BitOf(b, i)) * Pow2(i)
    IN  X(0) + X(1) + X(2) + X(3) + X(4) + X(5) + X(6) + X(7)

\* u32::trailing_zeros, for d # 0
RECURSIVE trailing_zeros(_)
trailing_zeros(d) == IF d % 2 = 1 THEN 0 ELSE 1 + trailing_zeros(d \div 2)

\* ------------------------------------------------------------ buttons

None == "None"

\* BUTTON_REPORT_TO_MIKROBUTTONS_MAP[idx][pos] is
\* BUTTON_REPORT_TO_MIKROBUTTONS_MAP[idx + 1][pos + 1] here (1-based).
BUTTON_REPORT_TO_MIKROBUTTONS_MAP ==
    << << "Restart", "StepLeft", "StepRight", "Grid",
          "Play", "Rec", "Erase", "Shift" >>,
       << "Group", "Browse", "Sampling", "NoteRepeat",
          "Encoder", None, None, None >>,
       << "F1", "F2", "F3", "Control",
          "Nav", "NavLeft", "NavRight", "Main" >>,
       << "Scene", "Pattern", "PadMode", "View",
          "Duplicate", "Select", "Solo", "Mute" >> >>

\* A call of the event sink.
ButtonEvent(call, btn) == [call |-> call, btn |-> btn, idx |-> 0, val |-> 0]
EncoderEvent(dir) == [call |-> "encoder_step", btn |-> None, idx |-> 0, val |-> dir]

\* BUTTON_REPORT_TO_MIKROBUTTONS_MAP[idx][8 - off]
LookupButton(idx, off) ==
    BUTTON_REPORT_TO_MIKROBUTTONS_MAP[idx + 1][(8 - off) + 1]

\* The while loop of read_buttons over one group byte: `diff` is what is
\* left of byte ^ self.buttons[idx], `evs` the handler calls made so far.
RECURSIVE DiffLoop(_, _, _, _)
DiffLoop(idx, byte, diff, evs) ==
    IF diff = 0
    THEN [events |-> evs, panic |-> FALSE]
    ELSE LET off == trailing_zeros(diff) + 1
             btn == LookupButton(idx, off)
         IN  IF btn = None
             THEN [events |-> evs, panic |-> TRUE]
             ELSE DiffLoop(idx, byte, diff \div Pow2(off),
                           Append(evs,
                                  ButtonEvent(IF AndByte(byte, Pow2(off - 1)) # 0
                                              THEN "button_down"
                                              ELSE "button_up", btn)))

\* The for loop of read_buttons over buf[0..4], from group idx on: `snap`
\* is self.buttons, `evs` the handler calls made so far.
RECURSIVE GroupLoop_NoStore(_, _, _, _)
GroupLoop_NoStore(idx, buf, snap, evs) ==
    IF idx = 4
    THEN [buttons |-> snap, events |-> evs, panic |-> FALSE]
    ELSE LET byte == buf[idx + 1]
             r == DiffLoop(idx, byte, XorByte(byte, snap[idx]), evs)
         IN  IF r.panic
             THEN [buttons |-> snap, events |-> r.events, panic |-> TRUE]
             ELSE GroupLoop_NoStore(idx + 1, buf,
                                    IF idx = 1 THEN snap ELSE [snap EXCEPT ![idx] = byte],
                                    r.events)

RECURSIVE GroupLoop(_, _, _, _)
GroupLoop(idx, buf, snap, evs) ==
    IF idx = 4
    THEN [buttons |-> snap, events |-> evs, panic |-> FALSE]
    ELSE LET byte == buf[idx + 1]
             r == DiffLoop(idx, byte, XorByte(byte, snap[idx]), evs)
         IN  IF r.panic
             THEN [buttons |-> snap, events |-> r.events, panic |-> TRUE]
             ELSE GroupLoop(idx + 1, buf,
                            [snap EXCEPT ![idx] = byte], r.events)

\* The encoder part of read_buttons: `snap` is self.buttons after the
\* group loop, `evs` the handler calls made so far.
EncoderPart_NoStoreAfterStep(buf, snap, evs) ==
    IF snap[4] > 15
    THEN [buttons |-> [snap EXCEPT ![4] = buf[5]], events |-> evs]
    ELSE IF snap[4] = buf[5]
    THEN [buttons |-> snap, events |-> evs]
    ELSE [buttons |-> snap,
          events |-> Append(evs, EncoderEvent(IF AndByte(snap[4] + 1, 15) = buf[5]
                                              THEN 1 ELSE -1))]

EncoderPart(buf, snap, evs) ==
    IF snap[4] > 15
    THEN [buttons |-> [snap EXCEPT ![4] = buf[5]], events |-> evs]
    ELSE IF snap[4] = buf[5]
    THEN [buttons |-> snap, events |-> evs]
    ELSE [buttons |-> [snap EXCEPT ![4] = buf[5]],
          events |-> Append(evs, EncoderEvent(IF AndByte(snap[4] + 1, 15) = buf[5]
                                              THEN 1 ELSE -1))]

\* Mikro::read_buttons on payload buf (5 bytes, 1-based) with self.buttons
\* = snap: the snapshot left behind, the handler calls made, and whether
\* the expect() on the lookup table panicked.
read_buttons(snap, buf) ==
    LET g == GroupLoop(0, buf, snap, << >>)
    IN  IF g.panic
        THEN g
        ELSE LET e == EncoderPart(buf, g.buttons, g.events)
             IN  [buttons |-> e.buttons, events |-> e.events, panic |-> FALSE]

\* ------------------------------------------------------------ pads

\* Normalized pressure is kept as the numerator n of n / 4095.0; the f32
\* division is strictly monotone on 0..4095, so n identifies the value.
PressureDen == 4095

\* MaschinePad (base module): classification state and last normalized
\* pressure; thresholds as numerators over PressureDen.
ReleaseThreshold == 128
PressThreshold == 256

DefaultPad == [state |-> "Idle", pressure |-> 0]

\* MaschinePad::pressure_val: the new pad and the transition reported.
pressure_val(pad, p) ==
    IF pad.state = "Idle"
    THEN IF p > PressThreshold
         THEN [pad |-> [state |-> "Pressed", pressure |-> p], transition |-> "Pressed"]
         ELSE [pad |-> [state |-> "Idle", pressure |-> p], transition |-> "None"]
    ELSE IF p < ReleaseThreshold
         THEN [pad |-> [state |-> "Idle", pressure |-> p], transition |-> "Released"]
         ELSE [pad |-> [state |-> "Aftertouch", pressure |-> p], transition |-> "Aftertouch"]

\* MaschinePad::get_pressure
get_pressure(pad) == pad.pressure

PadEvent(call, i, p) == [call |-> call, btn |-> None, idx |-> i, val |-> p]

\* pads[i] of the payload reinterpreted as u16 samples, on a little-endian
\* target that allows unaligned loads (x86)
SampleAt(buf, i) == buf[2 * i + 1] + 256 * buf[2 * i + 2]

\* ((pads[i] & 0xFFF) as f32) / 4095.0, as a numerator over PressureDen
Normalize_NoMask(raw) == raw

Normalize(raw) == raw % 4096

\* The handler call, if any, of one pad's transition.
PadCalls_NoRelease(i, pressure, transition) ==
    IF transition = "Pressed" THEN << PadEvent("pad_pressed", i, pressure) >>
    ELSE IF transition = "Aftertouch" THEN << PadEvent("pad_aftertouch", i, pressure) >>
    ELSE << >>

PadCalls(i, pressure, transition) ==
    IF transition = "Pressed" THEN << PadEvent("pad_pressed", i, pressure) >>
    ELSE IF transition = "Aftertouch" THEN << PadEvent("pad_aftertouch", i, pressure) >>
    ELSE IF transition = "Released" THEN << PadEvent("pad_released", i, 0) >>
    ELSE << >>

\* The for loop of read_pads from pad i on: `ps` is self.pads, `evs` the
\* handler calls made so far.
RECURSIVE PadLoop_FirstPadState(_, _, _, _)
PadLoop_FirstPadState(i, buf, ps, evs) ==
    IF i = 16
    THEN [pads |-> ps, events |-> evs]
    ELSE LET pressure == Normalize(SampleAt(buf, i))
             r == pressure_val(ps[0], pressure)
         IN  PadLoop_FirstPadState(i + 1, buf, [ps EXCEPT ![i] = r.pad],
                                   evs \o PadCalls(i, pressure, r.transition))

RECURSIVE PadLoop(_, _, _, _)
PadLoop(i, buf, ps, evs) ==
    IF i = 16
    THEN [pads |-> ps, events |-> evs]
    ELSE LET pressure == Normalize(SampleAt(buf, i))
             r == pressure_val(ps[i], pressure)
         IN  PadLoop(i + 1, buf, [ps EXCEPT ![i] = r.pad],
                     evs \o PadCalls(i, pressure, r.transition))

\* Mikro::read_pads on payload buf (32 bytes, 1-based)
read_pads(ps, buf) == PadLoop(0, buf, ps, << >>)

\* Mikro::get_pad_pressure
get_pad_pressure_OffByOne(ps, pad_idx) ==
    IF 0 <= pad_idx /\ pad_idx <= 16
    THEN [ok |-> TRUE, val |-> get_pressure(ps[IF pad_idx = 16 THEN 15 ELSE pad_idx])]
    ELSE [ok |-> FALSE, val |-> 0]

get_pad_pressure(ps, pad_idx) ==
    IF 0 <= pad_idx /\ pad_idx <= 15
    THEN [ok |-> TRUE, val |-> get_pressure(ps[pad_idx])]
    ELSE [ok |-> FALSE, val |-> 0]

\* ------------------------------------------------------------ lights

BrightDen == Pow2(BrightBits)

\* (x as u8) of the f32 product num / den, 0 <= num / den < 256
TruncU8(num, den) == num \div den

\* the f32 product num / den rounded to the nearest integer, half up
RoundU8(num, den) == (2 * num + den) \div (2 * den)

\* set_rgb_light: the three bytes written, brightness = k / BrightDen
set_rgb_light_Rounds(color, k) ==
    << RoundU8(k * ((color \div 65536) % 256), 2 * BrightDen),
       RoundU8(k * ((color \div 256) % 256), 2 * BrightDen),
       RoundU8(k * (color % 256), 2 * BrightDen) >>

set_rgb_light(color, k) ==
    << TruncU8(k * ((color \div 65536) % 256), 2 * BrightDen),
       TruncU8(k * ((color \div 256) % 256), 2 * BrightDen),
       TruncU8(k * (color % 256), 2 * BrightDen) >>

\* Mikro::set_pad_light
set_pad_light_OffByOne(buf, pad, color, k) ==
    LET offset == 30 + (pad * 3)
        rgb == set_rgb_light(color, k)
    IN  [i \in DOMAIN buf |->
            IF offset <= i /\ i < offset + 3 THEN rgb[i - offset + 1] ELSE buf[i]]

set_pad_light(buf, pad, color, k) ==
    LET offset == 31 + (pad * 3)
        rgb == set_rgb_light(color, k)
    IN  [i \in DOMAIN buf |->
            IF offset <= i /\ i < offset + 3 THEN rgb[i - offset + 1] ELSE buf[i]]

\* The match of set_button_light: the offset of btn's byte, 0 for a button
\* without a light.
ButtonLightIndex_EncoderLit(btn) ==
    CASE btn = "F1" -> 1 [] btn = "F2" -> 2 [] btn = "F3" -> 3
      [] btn = "Control" -> 4 [] btn = "Nav" -> 5 [] btn = "NavLeft" -> 6
      [] btn = "NavRight" -> 7 [] btn = "Main" -> 8
      [] btn = "Group" -> 9 [] btn = "Encoder" -> 10 [] btn = "Browse" -> 12
      [] btn = "Sampling" -> 13 [] btn = "NoteRepeat" -> 14
      [] btn = "Restart" -> 15 [] btn = "StepLeft" -> 16
      [] btn = "StepRight" -> 17 [] btn = "Grid" -> 18 [] btn = "Play" -> 19
      [] btn = "Rec" -> 20 [] btn = "Erase" -> 21 [] btn = "Shift" -> 22
      [] btn = "Scene" -> 23 [] btn = "Pattern" -> 24 [] btn = "PadMode" -> 25
      [] btn = "View" -> 26 [] btn = "Duplicate" -> 27 [] btn = "Select" -> 28
      [] btn = "Solo" -> 29 [] btn = "Mute" -> 30
      [] OTHER -> 0

ButtonLightIndex(btn) ==
    CASE btn = "F1" -> 1 [] btn = "F2" -> 2 [] btn = "F3" -> 3
      [] btn = "Control" -> 4 [] btn = "Nav" -> 5 [] btn = "NavLeft" -> 6
      [] btn = "NavRight" -> 7 [] btn = "Main" -> 8
      [] btn = "Group" -> 9 [] btn = "Browse" -> 12
      [] btn = "Sampling" -> 13 [] btn = "NoteRepeat" -> 14
      [] btn = "Restart" -> 15 [] btn = "StepLeft" -> 16
      [] btn = "StepRight" -> 17 [] btn = "Grid" -> 18 [] btn = "Play" -> 19
      [] btn = "Rec" -> 20 [] btn = "Erase" -> 21 [] btn = "Shift" -> 22
      [] btn = "Scene" -> 23 [] btn = "Pattern" -> 24 [] btn = "PadMode" -> 25
      [] btn = "View" -> 26 [] btn = "Duplicate" -> 27 [] btn = "Select" -> 28
      [] btn = "Solo" -> 29 [] btn = "Mute" -> 30
      [] OTHER -> 0

\* Mikro::set_button_light
set_button_light_Rounds(buf, btn, k) ==
    LET idx == ButtonLightIndex(btn)
    IN  IF idx = 0 THEN buf
        ELSE [buf EXCEPT ![idx] = RoundU8(k * 255, BrightDen)]

set_button_light(buf, btn, k) ==
    LET idx == ButtonLightIndex(btn)
    IN  IF idx = 0 THEN buf
        ELSE [buf EXCEPT ![idx] = TruncU8(k * 255, BrightDen)]

\* ------------------------------------------------------------ transport writes

\* One self.dev.write(..) call: the bytes handed to the transport and the
\* Result it gave, "Ok" or "Err".
Write(buf, res) == [buf |-> buf, res |-> res]

\* Mikro::write_lights: the write made and whether its unwrap() panicked.
write_lights(buf, res) ==
    [writes |-> << Write(buf, res) >>, panic |-> (res = "Err")]

\* screen_buf of clear_screen at iteration i: [0u8; 1 + 8 + 256] with bytes
\* 0, 5, 7 set before the loop and byte 1 = i * 32 set in it.
ScreenBuf_Selector16(i) ==
    [j \in 0..264 |-> IF j = 0 THEN 224
                      ELSE IF j = 1 THEN (i * 16) % 256
                      ELSE IF j = 5 THEN 32
                      ELSE IF j = 7 THEN 8
                      ELSE 0]

ScreenBuf(i) ==
    [j \in 0..264 |-> IF j = 0 THEN 224
                      ELSE IF j = 1 THEN (i * 32) % 256
                      ELSE IF j = 5 THEN 32
                      ELSE IF j = 7 THEN 8
                      ELSE 0]

\* The for loop of clear_screen from quadrant i on: res[i] is the Result the
\* transport gives the write of quadrant i, `ws` the writes made so far;
\* unwrap() panics on the first "Err".
RECURSIVE ScreenLoop_IgnoreErr(_, _, _)
ScreenLoop_IgnoreErr(i, res, ws) ==
    IF i = 4
    THEN [writes |-> ws, panic |-> \E j \in 0..3 : res[j] = "Err"]
    ELSE ScreenLoop_IgnoreErr(i + 1, res, Append(ws, Write(ScreenBuf(i), res[i])))

RECURSIVE ScreenLoop(_, _, _)
ScreenLoop(i, res, ws) ==
    IF i = 4
    THEN [writes |-> ws, panic |-> FALSE]
    ELSE IF res[i] = "Err"
         THEN [writes |-> Append(ws, Write(ScreenBuf(i), res[i])), panic |-> TRUE]
         ELSE ScreenLoop(i + 1, res, Append(ws, Write(ScreenBuf(i), res[i])))

\* Mikro::clear_screen
clear_screen(res) == ScreenLoop(0, res, << >>)

\* ------------------------------------------------------------ state

VARIABLES
    buttons,       \* self.buttons: [0..4 -> u8]
    pads,          \* self.pads: [0..15 -> MaschinePad]
    light_buf,     \* self.light_buf: [0..78 -> u8]
    outcome,       \* "ok", or "panic" once an operation has panicked
    events,        \* handler calls made by the last operation
    result,        \* value returned by the last operation
    op,            \* the last operation and its input
    prev_buttons,  \* self.buttons before the last operation
    last_pads,     \* payload of the last pad report read, << >> if none
    writes,        \* transport writes attempted by the last operation
    traj,          \* pad 0's normalized pressures since construction
    padlog,        \* pad 0's handler calls since construction
    nops           \* light and display operations since construction

monitor == << traj, padlog, nops >>
vars == << buttons, pads, light_buf, outcome, events, result, op,
           prev_buttons, last_pads, writes, traj, padlog, nops >>

NoResult == [ok |-> TRUE, val |-> 0]

Op(name, read, buf, idx, btn, color, k) ==
    [name |-> name, read |-> read, buf |-> buf, idx |-> idx, btn |-> btn,
     color |-> color, k |-> k]

\* Mikro::new
Init ==
    /\ buttons = [i \in 0..4 |-> IF i = 4 THEN 16 ELSE 0]
    /\ pads = [i \in 0..15 |-> DefaultPad]
    /\ light_buf = [i \in 0..78 |-> IF i = 0 THEN 128 ELSE 0]
    /\ outcome = "ok"
    /\ events = << >>
    /\ result = NoResult
    /\ op = Op("new", "-", << >>, 0, None, 0, 0)
    /\ prev_buttons = [i \in 0..4 |-> IF i = 4 THEN 16 ELSE 0]
    /\ last_pads = << >>
    /\ writes = << >>
    /\ traj = << >>
    /\ padlog = << >>
    /\ nops = 0

\* ------------------------------------------------------------ readable

\* The match on report_nr in readable, for a report `buf` (kind byte, then
\* payload) that was read.
Dispatch_UnknownAsButtons(snap, ps, buf) ==
    IF buf[1] = 32
    THEN LET r == read_pads(ps, Tail(buf))
         IN  [buttons |-> snap, pads |-> r.pads, events |-> r.events, panic |-> FALSE]
    ELSE LET r == read_buttons(snap, (Tail(buf) \o << 0, 0, 0, 0, 0 >>))
         IN  [buttons |-> r.buttons, pads |-> ps, events |-> r.events, panic |-> r.panic]

Dispatch(snap, ps, buf) ==
    IF buf[1] = 1
    THEN LET r == read_buttons(snap, Tail(buf))
         IN  [buttons |-> r.buttons, pads |-> ps, events |-> r.events, panic |-> r.panic]
    ELSE IF buf[1] = 32
    THEN LET r == read_pads(ps, Tail(buf))
         IN  [buttons |-> snap, pads |-> r.pads, events |-> r.events, panic |-> FALSE]
    ELSE [buttons |-> snap, pads |-> ps, events |-> << >>, panic |-> FALSE]

\* Mikro::readable, the transport's read giving `read`: "Err" (the read
\* failed), "None" (Ok(None): nothing to read) or "Ok" with the report buf.
\* The transport delivers whole reports: a button report has 5 payload
\* bytes, a pad report 32.
Readable(read, buf) ==
    /\ outcome = "ok"
    /\ op' = Op("readable", read, buf, 0, None, 0, 0)
    /\ prev_buttons' = buttons
    /\ writes' = << >>
    /\ last_pads' = IF read = "Ok" /\ buf[1] = 32 THEN Tail(buf) ELSE last_pads
    /\ result' = NoResult
    /\ UNCHANGED light_buf
    /\ IF read # "Ok"
       THEN /\ outcome' = "panic"
            /\ events' = << >>
            /\ UNCHANGED << buttons, pads >>
       ELSE \E r \in { Dispatch(buttons, pads, buf) } :
                /\ buttons' = r.buttons
                /\ pads' = r.pads
                /\ events' = r.events
                /\ outcome' = IF r.panic THEN "panic" ELSE "ok"

\* Mikro::get_pad_pressure
GetPadPressure(pad_idx) ==
    /\ outcome = "ok"
    /\ op' = Op("get_pad_pressure", "-", << >>, pad_idx, None, 0, 0)
    /\ prev_buttons' = buttons
    /\ writes' = << >>
    /\ UNCHANGED last_pads
    /\ result' = get_pad_pressure(pads, pad_idx)
    /\ events' = << >>
    /\ UNCHANGED << buttons, pads, light_buf, outcome >>

\* Mikro::set_pad_light
SetPadLight(pad, color, k) ==
    /\ outcome = "ok"
    /\ op' = Op("set_pad_light", "-", << >>, pad, None, color, k)
    /\ prev_buttons' = buttons
    /\ writes' = << >>
    /\ UNCHANGED last_pads
    /\ result' = NoResult
    /\ events' = << >>
    /\ IF 31 + (pad * 3) + 3 > 79
       THEN outcome' = "panic" /\ UNCHANGED light_buf
       ELSE outcome' = "ok" /\ light_buf' = set_pad_light(light_buf, pad, color, k)
    /\ UNCHANGED << buttons, pads >>

\* Mikro::set_button_light
SetButtonLight(btn, k) ==
    /\ outcome = "ok"
    /\ op' = Op("set_button_light", "-", << >>, 0, btn, 0, k)
    /\ prev_buttons' = buttons
    /\ writes' = << >>
    /\ UNCHANGED last_pads
    /\ result' = NoResult
    /\ events' = << >>
    /\ light_buf' = set_button_light(light_buf, btn, k)
    /\ UNCHANGED << buttons, pads, outcome >>

\* Mikro::write_lights, the transport's write giving `res`
WriteLights(res) ==
    /\ outcome = "ok"
    /\ op' = Op("write_lights", "-", << res >>, 0, None, 0, 0)
    /\ prev_buttons' = buttons
    /\ UNCHANGED last_pads
    /\ result' = NoResult
    /\ events' = << >>
    /\ \E r \in { write_lights(light_buf, res) } :
           /\ writes' = r.writes
           /\ outcome' = IF r.panic THEN "panic" ELSE "ok"
    /\ UNCHANGED << buttons, pads, light_buf >>

\* Mikro::clear_screen, the transport's write of quadrant i giving res[i]
ClearScreen(res) ==
    /\ outcome = "ok"
    /\ op' = Op("clear_screen", "-", << res[0], res[1], res[2], res[3] >>, 0, None, 0, 0)
    /\ prev_buttons' = buttons
    /\ UNCHANGED last_pads
    /\ result' = NoResult
    /\ events' = << >>
    /\ \E r \in { clear_screen(res) } :
           /\ writes' = r.writes
           /\ outcome' = IF r.panic THEN "panic" ELSE "ok"
    /\ UNCHANGED << buttons, pads, light_buf >>

\* ------------------------------------------------------------ inputs

WiredOrder ==
    << << 1, 3 >>, << 1, 4 >>, << 1, 0 >>, << 0, 0 >>, << 1, 7 >>,
       << 2, 7 >>, << 0, 1 >>, << 3, 5 >> >>

Wired ==
    { WiredOrder[i] : i \in { j \in 1..Len(WiredOrder) : j <= NumWired } }

\* Bytes of group g with bits set at wired positions only.
GroupBytes(g) ==
    { x \in 0..255 : \A b \in 0..7 : BitOf(x, b) = 1 => << g, b >> \in Wired }

EncBytes == { 0 } \cup (14..(15 + EncHigh))

\* Payloads of button reports: 4 group bytes and the encoder byte.
ButtonPayloads ==
    { << a, b, c, d, e >> : a \in GroupBytes(0), b \in GroupBytes(1),
                            c \in GroupBytes(2), d \in GroupBytes(3),
                            e \in EncBytes }

Levels == { LevelStep * k : k \in 0..NumLevels } \cup { 4095 }

\* 16-bit raw pad samples.
Samples == { t * 4096 + l : t \in 0..MaxTop, l \in Levels }

\* The 32 payload bytes of the 16 little-endian samples f[0..15].
PadPayload(f) ==
    [ j \in 1..32 |-> IF j % 2 = 1 THEN f[(j - 1) \div 2] % 256
                                   ELSE f[(j - 1) \div 2] \div 256 ]

\* Samples of pad 15: 0, 0x0FFF and 0xF12C.
Pad15Samples == { 0, 4095, 61740 }

\* Pad reports in which pad 0 carries any sample of Samples, pad 15 any of
\* Pad15Samples, the others 0.
PadPayloads ==
    { PadPayload([ i \in 0..15 |-> IF i = 0 THEN a ELSE IF i = 15 THEN b ELSE 0 ])
        : a \in Samples, b \in Pad15Samples }

\* Pad reports in which pad 0 carries any sample, the others 0.
Pad0Payloads ==
    { PadPayload([ i \in 0..15 |-> IF i = 0 THEN a ELSE 0 ]) : a \in Samples }

UnknownReports ==
    { << 127 >>, << 127, 1, 0, 0, 0, 5 >>, << 2, 0, 9, 0, 0, 14 >>, << 0 >> }

ReadButtonReport == \E p \in ButtonPayloads : Readable("Ok", << 1 >> \o p)

ReadPadReport == \E p \in PadPayloads : Readable("Ok", << 32 >> \o p)

ReadPad0Report == \E p \in Pad0Payloads : Readable("Ok", << 32 >> \o p)

ReadUnknownReport == \E b \in UnknownReports : Readable("Ok", b)

ReadFails == Readable("Err", << >>)

ReadNothing == Readable("None", << >>)

QueryPressure == \E i \in 0..MaxPadIdx : GetPadPressure(i)

\* Brightness numerators over BrightDen: 0.0, 1 / BrightDen and 1.0.
Brightness == { 0, 1, BrightDen }

\* Colors 0xFF0000 and 0xFF8040.
PadColors == { 16711680, 16744512 }

\* Every MaschineButton of the lookup table.
Buttons ==
    { BUTTON_REPORT_TO_MIKROBUTTONS_MAP[g][i] : g \in 1..4, i \in 1..8 } \ { None }

WriteResults == { "Ok", "Err" }

LightAnyPad ==
    \E pad \in 0..15, color \in PadColors, k \in Brightness : SetPadLight(pad, color, k)

LightAnyButton == \E btn \in Buttons, k \in Brightness : SetButtonLight(btn, k)

LightLitPad == \E pad \in 0..15, k \in Brightness \ { 0 } : SetPadLight(pad, 16744512, k)

LightLitButton == \E btn \in Buttons : SetButtonLight(btn, BrightDen)

FlushLights == \E res \in WriteResults : WriteLights(res)

ClearDisplay == \E res \in [0..3 -> WriteResults] : ClearScreen(res)

\* ------------------------------------------------------------ specifications

\* Button reports.
NextButtons ==
    \/ ReadButtonReport /\ UNCHANGED monitor
    \/ ReadUnknownReport /\ UNCHANGED monitor
    \/ ReadFails /\ UNCHANGED monitor
    \/ ReadNothing /\ UNCHANGED monitor

SpecButtons == Init /\ [][NextButtons]_vars

\* Pad reports and pressure queries.
NextPads ==
    \/ ReadPadReport /\ UNCHANGED monitor
    \/ QueryPressure /\ UNCHANGED monitor
    \/ ReadFails /\ UNCHANGED monitor

SpecPads == Init /\ [][NextPads]_vars

\* The handler calls of pad 0 among evs, by name.
RECURSIVE Pad0Calls(_)
Pad0Calls(evs) ==
    IF evs = << >> THEN << >>
    ELSE (IF Head(evs).idx = 0 /\ Head(evs).call \in { "pad_pressed", "pad_aftertouch", "pad_released" }
          THEN << Head(evs).call >> ELSE << >>) \o Pad0Calls(Tail(evs))

\* The low 12 bits of a 16-bit sample.
Low12(raw) == raw - 4096 * (raw \div 4096)

\* Pad reports for pad 0; the low 12 bits of its samples and its handler
\* calls are recorded.
NextHysteresis ==
    /\ Len(traj) < MaxTraj
    /\ ReadPad0Report
    /\ traj' = Append(traj, Low12(SampleAt(last_pads', 0)))
    /\ padlog' = padlog \o Pad0Calls(events')
    /\ UNCHANGED nops

SpecHysteresis == Init /\ [][NextHysteresis]_vars

\* All operations, on a few reports and lights.
DevButtonReports ==
    { << 1, 1, 0, 0, 0, 0 >>, << 1, 1, 8, 0, 0, 15 >>, << 1, 0, 16, 0, 0, 16 >> }

DevPadReports ==
    { << 32 >> \o PadPayload([ i \in 0..15 |-> IF i = 0 THEN a ELSE IF i = 15 THEN b ELSE 0 ])
        : a \in { 0, 300 }, b \in { 0, 61740 } }

ReadDevButtonReport == \E b \in DevButtonReports : Readable("Ok", b)

ReadDevPadReport == \E b \in DevPadReports : Readable("Ok", b)

LightButton == \E btn \in { "F1", "Encoder" }, k \in Brightness : SetButtonLight(btn, k)

LightPad == \E k \in Brightness : SetPadLight(15, 16744512, k)

NextDevice ==
    \/ ReadDevButtonReport /\ UNCHANGED monitor
    \/ ReadDevPadReport /\ UNCHANGED monitor
    \/ ReadUnknownReport /\ UNCHANGED monitor
    \/ ReadFails /\ UNCHANGED monitor
    \/ ReadNothing /\ UNCHANGED monitor
    \/ QueryPressure /\ UNCHANGED monitor
    \/ LightButton /\ UNCHANGED monitor
    \/ LightPad /\ UNCHANGED monitor

SpecDevice == Init /\ [][NextDevice]_vars

\* One more of at most MaxLightOps light and display operations.
LightOp ==
    /\ nops < MaxLightOps
    /\ nops' = nops + 1
    /\ UNCHANGED << traj, padlog >>

\* Pad lights of every pad, and flushes.
NextPadLights ==
    \/ LightOp /\ LightAnyPad
    \/ LightOp /\ FlushLights

SpecPadLights == Init /\ [][NextPadLights]_vars

\* Button lights of every button, and flushes.
NextButtonLights ==
    \/ LightOp /\ LightAnyButton
    \/ LightOp /\ FlushLights

SpecButtonLights == Init /\ [][NextButtonLights]_vars

\* Lit pads and buttons together, and flushes.
NextLightFrame ==
    \/ LightOp /\ LightLitPad
    \/ LightOp /\ LightLitButton
    \/ LightOp /\ FlushLights

SpecLightFrame == Init /\ [][NextLightFrame]_vars

\* Display clears on a device with buttons held, pads pressed and lights
\* set.
NextScreen ==
    \/ ClearDisplay /\ UNCHANGED monitor
    \/ ReadDevButtonReport /\ UNCHANGED monitor
    \/ ReadDevPadReport /\ UNCHANGED monitor
    \/ LightPad /\ UNCHANGED monitor
    \/ FlushLights /\ UNCHANGED monitor

SpecScreen == Init /\ [][NextScreen]_vars

\* ------------------------------------------------------------ button claims

\* The last operation decoded a button report (kind 0x01).
IsButtonReport ==
    op.name = "readable" /\ op.read = "Ok" /\ op.buf[1] = 1

\* Byte i (0..4) of the last report's payload.
NewByte(i) == op.buf[i + 2]

\* Bit b of group g differed between the last report and the snapshot
\* stored before it.
Changed(g, b) == BitOf(NewByte(g), b) # BitOf(prev_buttons[g], b)

\* The button the lookup table holds for bit b of group g (bit 0 is the
\* last entry of the group's row).
ButtonAt(g, b) == BUTTON_REPORT_TO_MIKROBUTTONS_MAP[g + 1][8 - b]

\* Every differing bit of the last report has a button in the table.
NoUnmappedChange ==
    \A g \in 0..3, b \in 0..7 : Changed(g, b) => ButtonAt(g, b) # None

ButtonCalls(btn) ==
    { i \in DOMAIN events : /\ events[i].call \in { "button_down", "button_up" }
                            /\ events[i].btn = btn }

EncoderCalls == { i \in DOMAIN events : events[i].call = "encoder_step" }

\* C1: after a button report none of whose differing bits lacks a button,
\* every differing bit (g, b) has exactly one button event, naming the
\* button of (g, b), a button_down if the bit is set in the new byte and
\* a button_up otherwise.
C1_OneEventPerChangedBit ==
    (IsButtonReport /\ NoUnmappedChange) =>
        \A g \in 0..3, b \in 0..7 :
            Changed(g, b) =>
                /\ Cardinality(ButtonCalls(ButtonAt(g, b))) = 1
                /\ \A i \in ButtonCalls(ButtonAt(g, b)) :
                       events[i].call = IF BitOf(NewByte(g), b) = 1
                                        THEN "button_down" ELSE "button_up"

\* C2: decoding a button report panics exactly when a differing bit has no
\* button in the lookup table.
C2_FatalIffUnmappedBit ==
    IsButtonReport => (outcome = "panic" <=> ~NoUnmappedChange)

\* C3: with a 4-bit stored encoder byte s and a report whose encoder byte
\* n is 4-bit (every differing button bit having a button), no
\* encoder_step is called if n = s, and otherwise exactly one, for encoder
\* 0, with direction 1 if (s + 1) mod 16 = n and -1 if not.
C3_EncoderStepDirection ==
    (/\ IsButtonReport /\ NoUnmappedChange
     /\ prev_buttons[4] <= 15 /\ NewByte(4) <= 15) =>
        IF NewByte(4) = prev_buttons[4]
        THEN EncoderCalls = { }
        ELSE /\ Cardinality(EncoderCalls) = 1
             /\ \A i \in EncoderCalls :
                    /\ events[i].idx = 0
                    /\ events[i].val = IF (prev_buttons[4] + 1) % 16 = NewByte(4)
                                       THEN 1 ELSE -1

\* C4: a new device stores an encoder byte above 15, and a button report
\* (every differing button bit having a button) decoded while the stored
\* encoder byte is above 15 calls no encoder_step and stores the report's
\* encoder byte.
C4_BaselineAdoption ==
    /\ op.name = "new" => buttons[4] > 15
    /\ (IsButtonReport /\ NoUnmappedChange /\ prev_buttons[4] > 15) =>
           (EncoderCalls = { } /\ buttons[4] = NewByte(4))

\* C5: decoding, right after a button report that was decoded without a
\* panic, the same report again makes no handler call, does not panic and
\* leaves the snapshot as it is.
C5_RepeatIsSilent ==
    [][ (/\ IsButtonReport /\ outcome = "ok"
         /\ IsButtonReport' /\ op'.buf = op.buf) =>
            (events' = << >> /\ buttons' = buttons /\ outcome' = "ok") ]_vars

\* A report was decoded onto a snapshot equal to its payload, with a button
\* held and the encoder at a 4-bit position.
C5_Witness ==
    /\ IsButtonReport /\ outcome = "ok"
    /\ \A i \in 0..4 : prev_buttons[i] = NewByte(i)
    /\ NewByte(1) # 0 /\ NewByte(4) <= 15
    /\ events = << >>

\* C6: after a button report decoded without a panic the snapshot holds
\* the report's five payload bytes.
C6_SnapshotIsReport ==
    (IsButtonReport /\ outcome = "ok") => \A i \in 0..4 : buttons[i] = NewByte(i)

\* A report that changed a button bit and stepped the encoder was decoded.
C6_Witness ==
    /\ IsButtonReport /\ outcome = "ok"
    /\ \E g \in 0..3, b \in 0..7 : Changed(g, b)
    /\ EncoderCalls # { }
    /\ \A i \in 0..4 : buttons[i] = NewByte(i)

\* ------------------------------------------------------------ dispatcher and pad claims

\* The last operation read a report of a kind other than 0x01 and 0x20.
IsUnknownReport ==
    op.name = "readable" /\ op.read = "Ok" /\ op.buf[1] \notin { 1, 32 }

\* C7: a readable call that reads a report whose kind is neither 0x01 nor
\* 0x20 makes no handler call, does not panic and leaves the button
\* snapshot, the pads and the light buffer as they are.
C7_UnknownReportIgnored ==
    [][ IsUnknownReport' =>
            (/\ events' = << >> /\ outcome' = "ok"
             /\ buttons' = buttons /\ pads' = pads /\ light_buf' = light_buf) ]_vars

\* An unknown report was read with a button held, a pad pressed and a
\* light set.
C7_Witness ==
    /\ IsUnknownReport /\ outcome = "ok" /\ events = << >>
    /\ op.buf[1] = 127 /\ Len(op.buf) > 1
    /\ buttons[0] # 0
    /\ pads[0].state # "Idle"
    /\ \E i \in 1..78 : light_buf[i] # 0

\* The last operation decoded a pad report (kind 0x20).
IsPadReport ==
    op.name = "readable" /\ op.read = "Ok" /\ op.buf[1] = 32

\* traj rises (weakly) to a value above the press threshold and then falls
\* (weakly) to a last value below the release threshold.
RiseThenFall ==
    \E k \in 1..Len(traj) :
        /\ \A i \in 1..(k - 1) : traj[i] <= traj[i + 1]
        /\ \A i \in k..(Len(traj) - 1) : traj[i] >= traj[i + 1]
        /\ traj[k] > PressThreshold
        /\ traj[Len(traj)] < ReleaseThreshold

\* traj stays between the release and the press threshold.
WithinBand ==
    \A i \in 1..Len(traj) : ReleaseThreshold <= traj[i] /\ traj[i] <= PressThreshold

\* C8: a pad starting Idle whose pressure rises to above the press
\* threshold and then falls to below the release threshold has had one
\* pad_pressed, then pad_aftertouch calls only, then one pad_released; a
\* pad whose pressure stayed within the band has had no call.
C8_Hysteresis ==
    /\ RiseThenFall =>
           /\ Len(padlog) >= 2
           /\ padlog[1] = "pad_pressed"
           /\ padlog[Len(padlog)] = "pad_released"
           /\ \A i \in 2..(Len(padlog) - 1) : padlog[i] = "pad_aftertouch"
    /\ WithinBand => padlog = << >>

\* Pad 0 went up in two steps and came down in two, with aftertouch.
C8_Witness ==
    /\ RiseThenFall
    /\ Len(traj) = 4 /\ traj[1] < traj[2] /\ traj[2] > traj[3]
    /\ traj[3] >= ReleaseThreshold /\ traj[1] > ReleaseThreshold
    /\ padlog = << "pad_pressed", "pad_aftertouch", "pad_released" >>

\* What read_pads does for pad i in state pad on sample raw: the pad left
\* behind and the handler call.
PadStep(i, pad, raw) ==
    LET r == pressure_val(pad, Normalize(raw))
    IN  [pad |-> r.pad, calls |-> PadCalls(i, Normalize(raw), r.transition)]

\* C9: after a pad report every pad's pressure is the low 12 bits of its
\* sample over 4095, within [0, 1]; a pad_pressed or pad_aftertouch call
\* carries it; and from any pad state two samples with the same low 12
\* bits give the same pad and the same call.
C9_NormalizedPressure ==
    /\ IsPadReport =>
           /\ \A i \in 0..15 :
                  /\ get_pressure(pads[i]) = Low12(SampleAt(last_pads, i))
                  /\ 0 <= get_pressure(pads[i]) /\ get_pressure(pads[i]) <= PressureDen
           /\ \A j \in DOMAIN events :
                  events[j].call \in { "pad_pressed", "pad_aftertouch" } =>
                      events[j].val = Low12(SampleAt(last_pads, events[j].idx))
    /\ \A i \in { 0, 15 }, a \in Samples, b \in Samples :
           Low12(a) = Low12(b) => PadStep(i, pads[i], a) = PadStep(i, pads[i], b)

\* A pad report with top bits set in the samples of pads 0 and 15 pressed
\* both.
C9_Witness ==
    /\ IsPadReport
    /\ SampleAt(last_pads, 0) > 4095 /\ SampleAt(last_pads, 15) > 4095
    /\ \E j \in DOMAIN events : events[j].call = "pad_pressed" /\ events[j].idx = 0
    /\ \E j \in DOMAIN events : events[j].call = "pad_pressed" /\ events[j].idx = 15

\* The normalized pressure pad i had in the last pad report, 0 if none.
LastPressure(i) ==
    IF last_pads = << >> THEN 0 ELSE Low12(SampleAt(last_pads, i))

\* C10: get_pad_pressure returns Ok with the pad's last normalized
\* pressure for an index in 0..15 and Err for an index of 16 or more, and
\* in both cases makes no handler call and leaves pads, button snapshot
\* and light buffer as they are.
C10_GetPadPressure ==
    [][ op'.name = "get_pad_pressure" =>
            (/\ IF op'.idx <= 15
                THEN result' = [ok |-> TRUE, val |-> LastPressure(op'.idx)]
                ELSE result'.ok = FALSE
             /\ events' = << >> /\ outcome' = outcome
             /\ buttons' = buttons /\ pads' = pads /\ light_buf' = light_buf) ]_vars

\* Pad 15's pressure was queried after a report pressed it, with a button
\* held and a light set.
C10_Witness ==
    /\ op.name = "get_pad_pressure" /\ op.idx = 15
    /\ result = [ok |-> TRUE, val |-> 300]
    /\ pads[15].state # "Idle"
    /\ buttons[0] # 0
    /\ \E i \in 1..78 : light_buf[i] # 0

\* ------------------------------------------------------------ light claims

\* Channel c (0 red, 1 green, 2 blue) of a 24-bit color.
Channel(color, c) == (color \div (256 ^ (2 - c))) % 256

\* b is an integer nearest to num / den (either one at a tie).
IsNearest(b, num, den) == 2 * b * den - 2 * num \in (0 - den)..den

\* b is num / den with the fraction dropped.
IsTruncated(b, num, den) == b * den <= num /\ num < (b + 1) * den

\* The last operation set the light of a pad in 0..15.
IsPadLight == op.name = "set_pad_light" /\ op.idx \in 0..15

\* C11: after set_pad_light(p, color, k / BrightDen) with p in 0..15 the
\* bytes at offsets 31 + 3p, 32 + 3p, 33 + 3p are the red, green and blue
\* channel times 0.5 times the brightness, rounded to the nearest integer.
C11_PadLightRounded ==
    IsPadLight =>
        \A c \in 0..2 :
            IsNearest(light_buf[31 + 3 * op.idx + c],
                      op.k * Channel(op.color, c), 2 * BrightDen)

\* C11 (amended): after set_pad_light(p, color, k / BrightDen) with p in
\* 0..15 the bytes at offsets 31 + 3p, 32 + 3p, 33 + 3p are the red, green
\* and blue channel times 0.5 times the brightness with the fraction
\* dropped; set_pad_light(0, 0xFF0000, 1.0) leaves 127, 0, 0 at offset 31.
C11_PadLightTruncated ==
    IsPadLight =>
        /\ \A c \in 0..2 :
               IsTruncated(light_buf[31 + 3 * op.idx + c],
                           op.k * Channel(op.color, c), 2 * BrightDen)
        /\ (op.idx = 0 /\ op.color = 16711680 /\ op.k = BrightDen) =>
               << light_buf[31], light_buf[32], light_buf[33] >> = << 127, 0, 0 >>

\* Pad 0 was lit with 0xFF0000 at brightness 1.0, then pad 15 with 0xFF8040
\* at the lowest non-zero brightness, whose red byte has a fraction above
\* one half.
C11_Witness ==
    /\ IsPadLight /\ op.idx = 15 /\ op.color = 16744512 /\ op.k = 1
    /\ 2 * (op.k * 255 % (2 * BrightDen)) > 2 * BrightDen
    /\ light_buf[76] = (op.k * 255) \div (2 * BrightDen)
    /\ light_buf[31] = 127 /\ light_buf[32] = 0 /\ light_buf[33] = 0

\* The last operation set the light of a button that has one.
IsButtonLight == op.name = "set_button_light" /\ ButtonLightIndex(op.btn) # 0

\* C12: after set_button_light(btn, k / BrightDen) on a button with a
\* light, the byte at the button's offset is 255 times the brightness,
\* rounded to the nearest integer.
C12_ButtonLightRounded ==
    IsButtonLight =>
        IsNearest(light_buf[ButtonLightIndex(op.btn)], op.k * 255, BrightDen)

\* C12 (amended): after set_button_light(btn, k / BrightDen) on a button
\* with a light, the byte at the button's offset is 255 times the
\* brightness with the fraction dropped.
C12_ButtonLightTruncated ==
    IsButtonLight =>
        IsTruncated(light_buf[ButtonLightIndex(op.btn)], op.k * 255, BrightDen)

\* Mute was lit at the lowest non-zero brightness, whose byte has a
\* fraction above one half, after F1 at brightness 1.0.
C12_Witness ==
    /\ IsButtonLight /\ op.btn = "Mute" /\ op.k = 1
    /\ 2 * (op.k * 255 % BrightDen) > BrightDen
    /\ light_buf[30] = (op.k * 255) \div BrightDen
    /\ light_buf[1] = 255

\* Buttons set_button_light has no offset for (the `_` arm of its match).
NoIndicator == { "Encoder" }

\* C13: set_button_light on a button without a light changes no byte of
\* the light buffer, writes nothing to the transport and does not panic,
\* whatever the brightness and the buffer.
C13_NoLightNoChange ==
    [][ (op'.name = "set_button_light" /\ op'.btn \in NoIndicator) =>
            (/\ light_buf' = light_buf
             /\ DOMAIN light_buf' = 0..78
             /\ writes' = << >>
             /\ outcome' = "ok") ]_vars

\* The encoder's light was set to brightness 1.0 on a buffer with a button
\* light on.
C13_Witness ==
    /\ op.name = "set_button_light" /\ op.btn = "Encoder" /\ op.k = BrightDen
    /\ \E i \in 1..30 : light_buf[i] # 0
    /\ writes = << >> /\ outcome = "ok"

\* The buttons with a light and the bytes of pad p.
LitButtons == { b \in Buttons : ButtonLightIndex(b) # 0 }
PadBytes(p) == (31 + 3 * p)..(33 + 3 * p)

\* C14: the light buffer always has 79 bytes with 0x80 first; set_pad_light
\* on pad p in 0..15 changes no byte outside 31 + 3p .. 33 + 3p;
\* set_button_light changes no byte but the one at the button's offset,
\* which is in 1..30; a flush changes none; and no two buttons share an
\* offset, no two pads a byte, no button and pad a byte.
C14_LightFrame ==
    /\ \A a \in LitButtons, b \in LitButtons :
           a # b => ButtonLightIndex(a) # ButtonLightIndex(b)
    /\ \A b \in LitButtons : ButtonLightIndex(b) \in 1..30
    /\ \A p \in 0..15, q \in 0..15 : p # q => PadBytes(p) \cap PadBytes(q) = { }
    /\ \A p \in 0..15 : PadBytes(p) \subseteq 31..78
    /\ [][ /\ DOMAIN light_buf' = 0..78 /\ light_buf'[0] = 128
           /\ (op'.name = "set_pad_light" /\ op'.idx \in 0..15) =>
                  \A i \in 0..78 :
                      i \notin PadBytes(op'.idx) => light_buf'[i] = light_buf[i]
           /\ op'.name = "set_button_light" =>
                  \A i \in 0..78 :
                      i # ButtonLightIndex(op'.btn) => light_buf'[i] = light_buf[i]
           /\ op'.name = "write_lights" => light_buf' = light_buf
         ]_vars

\* Mute (offset 30) was lit and then pad 0 (offsets 31..33) next to it.
C14_Witness ==
    /\ op.name = "set_pad_light" /\ op.idx = 0
    /\ light_buf[30] = 255
    /\ light_buf[31] # 0 /\ light_buf[32] # 0 /\ light_buf[33] # 0
    /\ light_buf[0] = 128 /\ light_buf[34] = 0

\* ------------------------------------------------------------ display claims

\* The last operation was clear_screen; the Result given to the write of
\* quadrant q was op.buf[q + 1].
IsClearScreen == op.name = "clear_screen"

\* The quadrants whose write the transport fails.
FailingQuadrants == { q \in 0..3 : op.buf[q + 1] = "Err" }

\* b is a display report for quadrant q: 265 bytes, 0xE0 first, q * 32 at
\* byte 1, 0x20 at byte 5, 0x08 at byte 7, zero elsewhere.
IsQuadrantReport(b, q) ==
    /\ DOMAIN b = 0..264
    /\ b[0] = 224 /\ b[1] = q * 32 /\ b[5] = 32 /\ b[7] = 8
    /\ \A j \in 0..264 : j \notin { 0, 1, 5, 7 } => b[j] = 0

\* C15: a clear_screen none of whose writes fails makes exactly four
\* transport writes, the q-th a display report for quadrant q (q = 0, 1, 2,
\* 3 in this order), makes no handler call, does not panic and leaves the
\* light buffer, the button snapshot and the pads as they are.
C15_ClearScreenWrites ==
    [][ (IsClearScreen' /\ FailingQuadrants' = { }) =>
            (/\ Len(writes') = 4
             /\ \A q \in 0..3 : IsQuadrantReport(writes'[q + 1].buf, q)
             /\ events' = << >> /\ outcome' = "ok"
             /\ light_buf' = light_buf /\ buttons' = buttons /\ pads' = pads) ]_vars

\* The display was cleared, every write succeeding, with a button held, a
\* pad pressed and a pad light on.
C15_Witness ==
    /\ IsClearScreen /\ FailingQuadrants = { } /\ outcome = "ok"
    /\ Len(writes) = 4 /\ writes[4].buf[1] = 96
    /\ buttons[0] # 0
    /\ pads[0].state # "Idle"
    /\ \E i \in 31..78 : light_buf[i] # 0

\* The first quadrant whose write fails.
FirstFailing == CHOOSE q \in FailingQuadrants : \A r \in FailingQuadrants : q <= r

\* C16: a clear_screen whose write for quadrant i is the first to fail
\* attempted exactly i + 1 writes, one for each of the quadrants 0..i in
\* this order (none twice, none for a quadrant after i), the last of them
\* the failed one, and did not return normally.
C16_ClearScreenAbort ==
    (IsClearScreen /\ FailingQuadrants # { }) =>
        /\ Len(writes) = FirstFailing + 1
        /\ \A q \in 0..FirstFailing : IsQuadrantReport(writes[q + 1].buf, q)
        /\ \A q \in 0..FirstFailing : writes[q + 1].res = "Err" <=> q = FirstFailing
        /\ outcome = "panic"

\* The write for quadrant 1 failed, the transport being ready to accept
\* those for quadrants 2 and 3.
C16_Witness ==
    /\ IsClearScreen
    /\ op.buf = << "Ok", "Err", "Ok", "Ok" >>
    /\ Len(writes) = 2 /\ writes[2].res = "Err" /\ writes[2].buf[1] = 32
    /\ outcome = "panic"

\* ------------------------------------------------------------ read failure

\* C17: a readable call whose transport read fails returns an error to its
\* caller (it does not panic), makes no handler call and leaves the button
\* snapshot, the pads and the light buffer as they are.
C17_ReadFailureReturned ==
    [][ (op'.name = "readable" /\ op'.read = "Err") =>
            (/\ outcome' = "ok" /\ result'.ok = FALSE
             /\ events' = << >>
             /\ buttons' = buttons /\ pads' = pads /\ light_buf' = light_buf) ]_vars

\* ------------------------------------------------------------ event order and encoder baseline

\* The group and bit the lookup table holds btn at.
PosOf(btn) ==
    CHOOSE gb \in (0..3) \X (0..7) : ButtonAt(gb[1], gb[2]) = btn

IsButtonCall(i) == events[i].call \in { "button_down", "button_up" }

\* The button events of the last operation that name a button of group g.
GroupCalls(g) ==
    { i \in DOMAIN events : IsButtonCall(i) /\ PosOf(events[i].btn)[1] = g }

\* C18: after a button report none of whose differing bits lacks a button,
\* each group g has as many button events as bits differing in its byte;
\* the button events are ordered by group and, within a group, by
\* ascending bit position; and an encoder_step, if any, is the last call.
C18_EventCountAndOrder ==
    (IsButtonReport /\ NoUnmappedChange) =>
        /\ \A g \in 0..3 :
               Cardinality(GroupCalls(g)) = Cardinality({ b \in 0..7 : Changed(g, b) })
        /\ \A i \in DOMAIN events, j \in DOMAIN events :
               (i < j /\ IsButtonCall(i) /\ IsButtonCall(j)) =>
                   \/ PosOf(events[i].btn)[1] < PosOf(events[j].btn)[1]
                   \/ /\ PosOf(events[i].btn)[1] = PosOf(events[j].btn)[1]
                      /\ PosOf(events[i].btn)[2] < PosOf(events[j].btn)[2]
        /\ \A i \in EncoderCalls : i = Len(events)

\* C19: a button report decoded right after another button report, with
\* the same four group bytes and a different encoder byte, calls
\* encoder_step exactly once, with direction 1 if the previous encoder byte
\* plus one equals the new one modulo 16 and -1 otherwise.
C19_BaselineOnlyOnce ==
    [][ (/\ IsButtonReport /\ outcome = "ok" /\ IsButtonReport'
         /\ \A g \in 0..3 : NewByte(g)' = NewByte(g)
         /\ NewByte(4)' # NewByte(4)) =>
            (/\ Cardinality(EncoderCalls') = 1
             /\ \A i \in EncoderCalls' :
                    events'[i].val = IF (NewByte(4) + 1) % 16 = NewByte(4)' % 16
                                     THEN 1 ELSE -1) ]_vars

\* ------------------------------------------------------------ pad event alternation

PadCallNames == { "pad_pressed", "pad_aftertouch", "pad_released" }

\* Pad i has had a pad_pressed not followed by a pad_released: all pads
\* start Idle, and C20 keeps this equal to the pad's state not being Idle.
Held(i) == pads[i].state # "Idle"

\* C20: a new device has no pad held; a pad report makes pad calls only,
\* at most one per pad and in ascending pad index; pad i's call and new
\* state are those of sample i on pad i's own state; a pad not held gets
\* pad_pressed or nothing, a held pad pad_aftertouch or pad_released and
\* never pad_pressed; and a pad is held afterwards exactly if it was
\* pressed in this report or was held and not released in it.
C20_PadAlternation ==
    [][ /\ op.name = "new" => \A i \in 0..15 : ~Held(i)
        /\ IsPadReport' =>
            /\ \A j \in DOMAIN events' : events'[j].call \in PadCallNames
            /\ \A j \in DOMAIN events', k \in DOMAIN events' :
                   j < k => events'[j].idx < events'[k].idx
            /\ \A i \in 0..15 :
                   \A calls \in { { events'[j].call :
                                      j \in { n \in DOMAIN events' : events'[n].idx = i } } },
                      step \in { PadStep(i, pads[i], SampleAt(last_pads', i)) } :
                       /\ calls = { step.calls[n].call : n \in DOMAIN step.calls }
                       /\ pads'[i] = step.pad
                       /\ ~Held(i) => calls \subseteq { "pad_pressed" }
                       /\ Held(i) => calls \subseteq { "pad_aftertouch", "pad_released" }
                       /\ Held(i)' <=> \/ "pad_pressed" \in calls
                                       \/ Held(i) /\ "pad_released" \notin calls
      ]_vars

\* One pad report released pad 0 and pressed pad 15.
C20_Witness ==
    /\ IsPadReport /\ Len(events) = 2
    /\ events[1].call = "pad_released" /\ events[1].idx = 0
    /\ events[2].call = "pad_pressed" /\ events[2].idx = 15
    /\ ~Held(0) /\ Held(15)

====
